---- MODULE Spec2Model ----
(***************************************************************************)
(* State-machine model of errorlytic-backend:                              *)
(*   src/routes/vehicles.js  - the five vehicle request handlers           *)
(*   src/models/Booking.js   - the booking schema and its two virtuals     *)
(*                                                                         *)
(* A handler is a sequence of steps, one per await of the source, so that  *)
(* datastore writes of other requests can fall between two steps.  Every   *)
(* await may also throw; the thrown value is caught by the handler's own   *)
(* catch block, which is modelled as the source writes it.                 *)
(***************************************************************************)
EXTENDS Integers, Sequences, FiniteSets, TLC

\* ------------------------------------------------------------------ bounds
MaxGenVehicles == 2
MaxGenEnvSteps == 2
MaxMetVehicles == 2
MaxMetEnvSteps == 2
MaxListVehicles == 2
MaxListEnvSteps == 2
MaxPage == 2
MaxLimit == 2
MaxAllVehicles == 1
MaxRows == 3
MaxTime == 3

\* ------------------------------------------------------------- identifiers
NoUser == "null"
NoOrg == "null"
NoUrl == "null"
NoText == "null"
Users == {"u1", "u2"}
Orgs == {"o1", "o2"}
Urls == {"img1", "img2"}
Plates == {"KAA", "KBB"}

\* req.user as the authentication middleware supplies it: _id and an
\* optional orgId.
Principals == [userId : Users, orgId : Orgs \cup {NoOrg}]

\* ------------------------------------------------------------ thrown values
\* A rejected await: an Error whose message is a sequence of words, or a
\* value that carries no message string at all (a rejected string, null, a
\* plain object).
ErrRateLimit == [hasMessage |-> TRUE, message |-> <<"rate", "limit", "exceeded">>]
ErrQuota == [hasMessage |-> TRUE, message |-> <<"insufficient", "quota">>]
ErrOther == [hasMessage |-> TRUE, message |-> <<"connection", "reset">>]
ErrNoMessage == [hasMessage |-> FALSE, message |-> <<>>]
NoError == [hasMessage |-> TRUE, message |-> <<>>]
Thrown == {ErrRateLimit, ErrQuota, ErrOther, ErrNoMessage}

\* String.prototype.includes, on words: needle is a contiguous part of hay.
Includes(hay, needle) ==
  \E i \in 0..(Len(hay) - Len(needle)) :
    \A j \in 1..Len(needle) : hay[i + j] = needle[j]

VARIABLES
  vehicles,   \* the Vehicle collection: a sequence in creation order, index = _id
  users,      \* the User collection: userId -> isActive
  auditLog,   \* the AuditLog collection
  envSteps,   \* writes of other requests so far
  handler,    \* the route of the request in flight or last answered
  pc,         \* the handler's position
  principal,  \* req.user
  params,     \* req.body / req.query / req.params
  local,      \* the handler's local variables
  resp,       \* the last response written
  nresp,      \* responses written for this request
  escaped,    \* a value was thrown out of the handler
  nmut,       \* vehicle documents saved by this request
  naudit,     \* audit records created by this request
  ncalls,     \* image provider calls made by this request
  booking,    \* a Booking document
  now,        \* the clock read by new Date()
  roster      \* the client roster input and output

store == <<vehicles, users, auditLog>>
request == <<handler, pc, principal, params, local>>
outcome == <<resp, nresp, escaped, nmut, naudit, ncalls>>
other == <<booking, now, roster>>
vars == <<vehicles, users, auditLog, envSteps, handler, pc, principal, params,
          local, resp, nresp, escaped, nmut, naudit, ncalls, booking, now, roster>>

NoResp == [status |-> 0, type |-> "none", data |-> <<>>]
NoParams == [vehicleId |-> 0, make |-> "", model |-> "", year |-> "",
             page |-> 1, limit |-> 10, search |-> NoText, ownerId |-> NoUser]
NoLocal == [vid |-> 0, imageUrl |-> NoUrl, error |-> NoError, step |-> "none",
            accessible |-> FALSE, totalCars |-> 0, activeCars |-> 0,
            uniqueUsers |-> {}, ownersAtFind |-> {}, activeUsers |-> 0,
            failed |-> FALSE, changed |-> FALSE, raced |-> FALSE, found |-> <<>>, matchedAtFind |-> 0]
NoRoster == [rows |-> <<>>, clients |-> <<>>, total |-> 0, built |-> FALSE]

\* ---------------------------------------------------------------- datastore
VehicleIds == 1..Len(vehicles)

\* The visibility rule in the words of the specification: the principal's user
\* identifier matches the owning user, or the principal's organization
\* identifier matches the owning organization.  Recorded beside a lookup so
\* that the handlers' filters can be compared with it.
CanAccess(v, p) == v.ownerUserId = p.userId \/ v.orgId = p.orgId
Visible(id, p) == id \in VehicleIds /\ CanAccess(vehicles[id], p)
VisibleOwners(p) ==
  {u \in Users : \E id \in VehicleIds :
     vehicles[id].ownerUserId = u /\ CanAccess(vehicles[id], p)}

\* $or: [{ ownerUserId: userId }, { orgId: orgId }]
AccessOr(v, p) == v.ownerUserId = p.userId \/ v.orgId = p.orgId

\* Mutant: the lookup by id alone, the ownership filter forgotten.
FindOneVehicleById(vehicleId, p) == IF vehicleId \in VehicleIds THEN vehicleId ELSE 0

\* Vehicle.findOne({ _id: vehicleId, $or: [...] }): the id found, or 0 (null).
FindOneVehicle(vehicleId, p) ==
  IF vehicleId \in VehicleIds /\ AccessOr(vehicles[vehicleId], p)
  THEN vehicleId
  ELSE 0

NewVehicle(owner, org, plate, info) ==
  [ownerUserId |-> owner, orgId |-> org, isActive |-> TRUE, imageUrl |-> NoUrl,
   plate |-> plate, make |-> "Toyota", model |-> "Corolla", ownerInfo |-> info]

NoInfo == [name |-> NoText, phone |-> NoText, email |-> NoText]

\* ------------------------------------------------- writes of other requests
\* The collections are shared with every other request of the application
\* (vehicle create / update / deactivate, user activation); each is one atomic
\* single-document write.  They are followed up to the moment the request
\* under study is answered.
EnvCreateVehicle(owner, org, plate, info) ==
  /\ pc # "done"
  /\ vehicles' = Append(vehicles, NewVehicle(owner, org, plate, info))
  /\ envSteps' = envSteps + 1
  /\ local' = [local EXCEPT !.changed = TRUE]
  /\ UNCHANGED <<users, auditLog, handler, pc, principal, params, outcome, other>>

EnvReownVehicle(id, owner, org) ==
  /\ pc # "done"
  /\ id \in VehicleIds
  /\ <<owner, org>> # <<vehicles[id].ownerUserId, vehicles[id].orgId>>
  /\ vehicles' = [vehicles EXCEPT ![id].ownerUserId = owner, ![id].orgId = org]
  /\ envSteps' = envSteps + 1
  /\ local' = [local EXCEPT !.changed = TRUE]
  /\ UNCHANGED <<users, auditLog, handler, pc, principal, params, outcome, other>>

EnvSetVehicleActive(id, active) ==
  /\ pc # "done"
  /\ id \in VehicleIds
  /\ vehicles[id].isActive # active
  /\ vehicles' = [vehicles EXCEPT ![id].isActive = active]
  /\ envSteps' = envSteps + 1
  /\ local' = [local EXCEPT !.changed = TRUE]
  /\ UNCHANGED <<users, auditLog, handler, pc, principal, params, outcome, other>>

EnvSetUserActive(u, active) ==
  /\ pc # "done"
  /\ users[u] # active
  /\ users' = [users EXCEPT ![u] = active]
  /\ envSteps' = envSteps + 1
  /\ UNCHANGED <<vehicles, auditLog, request, outcome, other>>

\* ------------------------------------------------------------ request start
Idle == pc = "idle"

\* The request under study arrives.  The handlers share no in-process state,
\* so a request depends on the collections alone; the requests of every other
\* caller are the writes above, before the request and between its steps.
Begin(route, q) ==
  /\ Idle
  /\ handler' = route
  /\ params' = q
  /\ escaped' = FALSE
  /\ nmut' = 0
  /\ naudit' = 0
  /\ ncalls' = 0

\* res.status(s).json(body), then the handler returns.
Respond(s, t, d) ==
  /\ resp' = [status |-> s, type |-> t, data |-> d]
  /\ nresp' = nresp + 1
  /\ pc' = "done"

\* ------------------------------------------- POST /vehicles/generate-image
GenBodies ==
  [vehicleId : 0..MaxGenVehicles, make : {"", "Toyota"}, model : {"Corolla"},
   year : {"2020", "abc"}]

IsNumeric(s) == s \in {"2020"}

\* The express-validator chain: the messages of the failing fields, in order.
ValidationErrors(b) ==
  (IF b.vehicleId = 0 THEN <<"Vehicle ID is required">> ELSE <<>>)
  \o (IF b.make = "" THEN <<"Make is required">> ELSE <<>>)
  \o (IF b.model = "" THEN <<"Model is required">> ELSE <<>>)
  \o (IF ~IsNumeric(b.year) THEN <<"Year must be a number">> ELSE <<>>)

\* Mutant: only "quota" is recognised; a rate-limit message falls to 500.
GenCatchStatusQuotaOnly(e) ==
  IF ~e.hasMessage THEN 0
  ELSE IF Includes(e.message, <<"quota">>) THEN 429 ELSE 500

\* The status the catch block answers with; 0 when reading error.message
\* itself throws, so that nothing is answered.
GenCatchStatus(e) ==
  IF ~e.hasMessage THEN 0
  ELSE IF Includes(e.message, <<"quota">>) \/ Includes(e.message, <<"rate", "limit">>)
       THEN 429
       ELSE 500

\* catch (error) { ... } of generate-image, entered from the await `step`.
GenCatch(e, step, loc) ==
  /\ local' = [loc EXCEPT !.error = e, !.step = step, !.failed = TRUE]
  /\ IF GenCatchStatus(e) = 0
     THEN /\ escaped' = TRUE
          /\ pc' = "done"
          /\ UNCHANGED <<resp, nresp>>
     ELSE /\ Respond(GenCatchStatus(e),
                     IF GenCatchStatus(e) = 429 THEN "rate_limit_error"
                                                ELSE "internal_error", <<>>)
          /\ UNCHANGED escaped

GenStart(b) ==
  /\ Begin("generate-image",
           [NoParams EXCEPT !.vehicleId = b.vehicleId, !.make = b.make,
                            !.model = b.model, !.year = b.year])
  /\ local' = NoLocal
  /\ IF ValidationErrors(b) # <<>>
     THEN /\ resp' = [status |-> 400, type |-> "validation_error",
                      data |-> Head(ValidationErrors(b))]
          /\ nresp' = 1
          /\ pc' = "done"
     ELSE /\ resp' = NoResp
          /\ nresp' = 0
          /\ pc' = "findOne"
  /\ UNCHANGED <<store, envSteps, principal, other>>

\* await Vehicle.findOne(...); if (!vehicle) return 404
GenFindOne ==
  /\ handler = "generate-image" /\ pc = "findOne"
  /\ \/ \E e \in Thrown :
          /\ GenCatch(e, "findOne", [local EXCEPT !.accessible = Visible(params.vehicleId, principal)])
          /\ UNCHANGED <<nmut, naudit, ncalls>>
     \/ /\ local' = [local EXCEPT !.vid = FindOneVehicle(params.vehicleId, principal),
                                  !.accessible = Visible(params.vehicleId, principal),
                                  !.step = "findOne"]
        /\ IF FindOneVehicle(params.vehicleId, principal) = 0
           THEN Respond(404, "vehicle_not_found", <<>>)
           ELSE pc' = "provider" /\ UNCHANGED <<resp, nresp>>
        /\ UNCHANGED <<escaped, nmut, naudit, ncalls>>
  /\ UNCHANGED <<store, envSteps, handler, principal, params, other>>

\* await openaiService.generateVehicleImage(...); vehicle.imageUrl = imageUrl
GenProvider ==
  /\ handler = "generate-image" /\ pc = "provider"
  /\ ncalls' = ncalls + 1
  /\ \/ \E e \in Thrown : GenCatch(e, "provider", local)
     \/ \E url \in Urls :
          /\ local' = [local EXCEPT !.imageUrl = url, !.step = "provider"]
          /\ pc' = "save"
          /\ UNCHANGED <<resp, nresp, escaped>>
  /\ UNCHANGED <<store, envSteps, handler, principal, params, nmut, naudit, other>>

\* await vehicle.save(): one single-document update of the fetched document
GenSave ==
  /\ handler = "generate-image" /\ pc = "save"
  /\ \/ /\ \E e \in Thrown : GenCatch(e, "save", local)
        /\ UNCHANGED <<vehicles, nmut>>
     \/ /\ vehicles' = [vehicles EXCEPT ![local.vid].imageUrl = local.imageUrl]
        /\ nmut' = nmut + 1
        /\ local' = [local EXCEPT !.step = "save"]
        /\ pc' = "audit"
        /\ UNCHANGED <<resp, nresp, escaped>>
  /\ UNCHANGED <<users, auditLog, envSteps, handler, principal, params, naudit,
                 ncalls, other>>

AuditRecord ==
  [actorId |-> principal.userId, orgId |-> principal.orgId,
   action |-> "vehicle_image_generated", targetId |-> params.vehicleId,
   imageUrl |-> local.imageUrl, provider |-> "openai-dalle"]

\* Mutant: a failed audit write is swallowed and the request still answers 200.
GenAuditSwallowed ==
  /\ handler = "generate-image" /\ pc = "audit"
  /\ \/ /\ local' = [local EXCEPT !.step = "audit", !.failed = TRUE]
        /\ UNCHANGED <<auditLog, naudit>>
     \/ /\ auditLog' = Append(auditLog, AuditRecord)
        /\ naudit' = naudit + 1
        /\ local' = [local EXCEPT !.step = "audit"]
  /\ Respond(200, "success", [vehicleId |-> local.vid, imageUrl |-> local.imageUrl])
  /\ UNCHANGED <<vehicles, users, envSteps, handler, principal, params, nmut,
                 ncalls, escaped, other>>

\* await AuditLog.create(...); res.json({ success: true, ... })
GenAudit ==
  /\ handler = "generate-image" /\ pc = "audit"
  /\ \/ /\ \E e \in Thrown : GenCatch(e, "audit", local)
        /\ UNCHANGED <<auditLog, naudit>>
     \/ /\ auditLog' = Append(auditLog, AuditRecord)
        /\ naudit' = naudit + 1
        /\ local' = [local EXCEPT !.step = "audit"]
        /\ Respond(200, "success",
                   [vehicleId |-> local.vid, imageUrl |-> local.imageUrl])
        /\ UNCHANGED escaped
  /\ UNCHANGED <<vehicles, users, envSteps, handler, principal, params, nmut,
                 ncalls, other>>

\* catch (error) { res.status(500).json(...) } of the four GET handlers: the
\* caught value is only logged.
Catch500(e, step) ==
  /\ local' = [local EXCEPT !.step = step, !.failed = TRUE]
  /\ Respond(500, "internal_error", <<>>)
  /\ UNCHANGED escaped

\* The handlers below write no vehicle, no audit record and call no provider.
NoEffects == UNCHANGED <<store, envSteps, nmut, naudit, ncalls, other>>

\* ------------------------------------------------------ GET /vehicles/metrics
\* Vehicle.countDocuments(query)
CountVehicles(p) == Cardinality({id \in VehicleIds : AccessOr(vehicles[id], p)})

\* Vehicle.countDocuments({ ...query, isActive: true })
CountActiveVehicles(p) ==
  Cardinality({id \in VehicleIds : AccessOr(vehicles[id], p) /\ vehicles[id].isActive})

\* Mutant: .filter(Boolean) left out, the null owner counted as a user.
UniqueUsersWithNull(p) ==
  {vehicles[id].ownerUserId : id \in {i \in VehicleIds : AccessOr(vehicles[i], p)}}

\* new Set(vehicles.map((v) => v.ownerUserId?.toString()).filter(Boolean))
UniqueUsers(p) ==
  {vehicles[id].ownerUserId : id \in {i \in VehicleIds : AccessOr(vehicles[i], p)}}
    \ {NoUser}

\* User.countDocuments({ _id: { $in: ids }, isActive: true })
CountActiveUsers(ids) == Cardinality({u \in ids : u \in DOMAIN users /\ users[u]})

MetStart ==
  /\ Begin("metrics", NoParams)
  /\ local' = NoLocal
  /\ resp' = NoResp
  /\ nresp' = 0
  /\ pc' = "countTotal"
  /\ UNCHANGED <<store, envSteps, principal, other>>

MetCountTotal ==
  /\ handler = "metrics" /\ pc = "countTotal"
  /\ \/ \E e \in Thrown : Catch500(e, "countTotal")
     \/ /\ local' = [local EXCEPT !.totalCars = CountVehicles(principal),
                                  !.changed = FALSE, !.step = "countTotal"]
        /\ pc' = "countActive"
        /\ UNCHANGED <<resp, nresp, escaped>>
  /\ UNCHANGED <<handler, principal, params>>
  /\ NoEffects

MetCountActive ==
  /\ handler = "metrics" /\ pc = "countActive"
  /\ \/ \E e \in Thrown : Catch500(e, "countActive")
     \/ /\ local' = [local EXCEPT !.activeCars = CountActiveVehicles(principal),
                                  !.raced = local.changed, !.step = "countActive"]
        /\ pc' = "find"
        /\ UNCHANGED <<resp, nresp, escaped>>
  /\ UNCHANGED <<handler, principal, params>>
  /\ NoEffects

MetFind ==
  /\ handler = "metrics" /\ pc = "find"
  /\ \/ \E e \in Thrown : Catch500(e, "find")
     \/ /\ local' = [local EXCEPT !.uniqueUsers = UniqueUsers(principal),
                                  !.ownersAtFind = VisibleOwners(principal),
                                  !.step = "find"]
        /\ pc' = "countUsers"
        /\ UNCHANGED <<resp, nresp, escaped>>
  /\ UNCHANGED <<handler, principal, params>>
  /\ NoEffects

MetCountUsers ==
  /\ handler = "metrics" /\ pc = "countUsers"
  /\ \/ \E e \in Thrown : Catch500(e, "countUsers")
     \/ /\ local' = [local EXCEPT !.activeUsers = CountActiveUsers(local.uniqueUsers),
                                  !.step = "countUsers"]
        /\ Respond(200, "success",
                   [totalUsers |-> Cardinality(local.uniqueUsers),
                    totalCars |-> local.totalCars,
                    activeUsers |-> CountActiveUsers(local.uniqueUsers)])
        /\ UNCHANGED escaped
  /\ UNCHANGED <<handler, principal, params>>
  /\ NoEffects

\* --------------------------------------------------- GET /vehicles/:vehicleId
DetStart(vehicleId) ==
  /\ Begin("detail", [NoParams EXCEPT !.vehicleId = vehicleId])
  /\ local' = NoLocal
  /\ resp' = NoResp
  /\ nresp' = 0
  /\ pc' = "findOne"
  /\ UNCHANGED <<store, envSteps, principal, other>>

DetFindOne ==
  /\ handler = "detail" /\ pc = "findOne"
  /\ \/ \E e \in Thrown : Catch500(e, "findOne")
     \/ /\ local' = [local EXCEPT !.vid = FindOneVehicle(params.vehicleId, principal),
                                  !.step = "findOne"]
        /\ IF FindOneVehicle(params.vehicleId, principal) = 0
           THEN Respond(404, "vehicle_not_found", <<>>)
           ELSE Respond(200, "success",
                        <<FindOneVehicle(params.vehicleId, principal)>>)
        /\ UNCHANGED escaped
  /\ UNCHANGED <<handler, principal, params>>
  /\ NoEffects

\* ------------------------------------------------------------ GET /vehicles
DefaultLimit == 10

\* { $regex: search, $options: "i" } on one field: the field holds the term,
\* letter case ignored.  Fields and terms are single words here.
Fold(t) ==
  CASE t \in {"KAA", "kaa"} -> "kaa"
    [] t \in {"KBB", "kbb"} -> "kbb"
    [] t \in {"Toyota", "toyota"} -> "toyota"
    [] t \in {"Corolla", "corolla"} -> "corolla"
    [] OTHER -> t

RegexMatch(fieldValue, term) == fieldValue # NoText /\ Fold(fieldValue) = Fold(term)

SearchMatches(v, term) ==
  \/ RegexMatch(v.plate, term)
  \/ RegexMatch(v.make, term)
  \/ RegexMatch(v.model, term)
  \/ RegexMatch(v.ownerInfo.name, term)

\* The filter of the list handler: the identity-or-organization rule, replaced
\* by the owner (and the caller's organization, when there is one) if ownerId
\* is given; active vehicles only; the search ANDed on.
ListQuery(v, p, q) ==
  /\ IF q.ownerId # NoUser
     THEN /\ v.ownerUserId = q.ownerId
          /\ (p.orgId # NoOrg => v.orgId = p.orgId)
     ELSE AccessOr(v, p)
  /\ v.isActive
  /\ (q.search # NoText => SearchMatches(v, q.search))

\* Vehicle.find(query).sort({ createdAt: -1 }): the matching ids, newest first.
IdsNewestFirst == [i \in 1..Len(vehicles) |-> Len(vehicles) + 1 - i]

FindSorted(p, q) ==
  LET Matches(id) == ListQuery(vehicles[id], p, q)
  IN SelectSeq(IdsNewestFirst, Matches)

\* Mutant: the page taken as 0-based, skip = page * limit.
PageOfZeroBased(seq, page, limit) ==
  LET skip == page * limit
      last == IF skip + limit < Len(seq) THEN skip + limit ELSE Len(seq)
  IN SubSeq(seq, skip + 1, last)

\* .skip((page - 1) * limit).limit(limit)
PageOf(seq, page, limit) ==
  LET skip == (page - 1) * limit
      last == IF skip + limit < Len(seq) THEN skip + limit ELSE Len(seq)
  IN SubSeq(seq, skip + 1, last)

\* Math.ceil(total / limit)
Pages(total, limit) == (total + limit - 1) \div limit

LstStart(page, limit, search, ownerId) ==
  /\ Begin("list", [NoParams EXCEPT !.page = page, !.limit = limit,
                                    !.search = search, !.ownerId = ownerId])
  /\ local' = NoLocal
  /\ resp' = NoResp
  /\ nresp' = 0
  /\ pc' = "find"
  /\ UNCHANGED <<store, envSteps, principal, other>>

LstFind ==
  /\ handler = "list" /\ pc = "find"
  /\ \/ \E e \in Thrown : Catch500(e, "find")
     \/ /\ local' = [local EXCEPT
                       !.found = PageOf(FindSorted(principal, params),
                                        params.page, params.limit),
                       !.matchedAtFind = Len(FindSorted(principal, params)),
                       !.changed = FALSE, !.step = "find"]
        /\ pc' = "count"
        /\ UNCHANGED <<resp, nresp, escaped>>
  /\ UNCHANGED <<handler, principal, params>>
  /\ NoEffects

LstCount ==
  /\ handler = "list" /\ pc = "count"
  /\ \/ \E e \in Thrown : Catch500(e, "count")
     \/ /\ local' = [local EXCEPT !.raced = local.changed, !.step = "count"]
        /\ Respond(200, "success",
                   [ids |-> local.found,
                    shape |-> IF params.ownerId # NoUser THEN "raw" ELSE "enriched",
                    total |-> Len(FindSorted(principal, params)),
                    page |-> params.page,
                    limit |-> params.limit,
                    pages |-> Pages(Len(FindSorted(principal, params)), params.limit)])
        /\ UNCHANGED escaped
  /\ UNCHANGED <<handler, principal, params>>
  /\ NoEffects

\* ---------------------------------------------------- GET /vehicles/clients
Truthy(t) == t \notin {NoText, ""}
OrElse(a, b) == IF Truthy(a) THEN a ELSE b

\* The populated owners: email, profile.name and profile.phone of a user.
NoDoc == [id |-> NoUser, name |-> NoText, email |-> NoText, phone |-> NoText]
UserDoc(u) ==
  IF u = "u1"
  THEN [id |-> u, name |-> "Ann", email |-> "ann@x", phone |-> "555"]
  ELSE [id |-> u, name |-> NoText, email |-> "bob@x", phone |-> NoText]

\* One vehicle as the find returns it: ownerUserId populated (null when the
\* vehicle has no owning user or the user is gone) and ownerInfo.
Row(v) ==
  [owner |-> IF v.ownerUserId \in DOMAIN users THEN UserDoc(v.ownerUserId) ELSE NoDoc,
   info |-> v.ownerInfo]

\* Vehicle.find({ orgId, isActive: true }) in creation order.
ClientRows(org) ==
  LET ids == SelectSeq([i \in 1..Len(vehicles) |-> i],
                       LAMBDA id : vehicles[id].orgId = org /\ vehicles[id].isActive)
  IN [k \in 1..Len(ids) |-> Row(vehicles[ids[k]])]

RegisteredKey(row) == <<"", row.owner.id>>
EmbeddedKey(row) == <<"info_", OrElse(row.info.phone, row.info.email)>>

HasKey(clients, key) == \E k \in 1..Len(clients) : clients[k].id = key

\* Mutant: clientsMap.set without the has() test, so the last vehicle seen
\* with a key replaces the entry of the first.
AddClientLastWins(clients, row) ==
  LET entry ==
        IF row.owner # NoDoc
        THEN [id |-> RegisteredKey(row),
              name |-> OrElse(row.owner.name, "Unknown"),
              email |-> OrElse(row.owner.email, ""),
              phone |-> OrElse(row.owner.phone, ""),
              type |-> "registered"]
        ELSE [id |-> EmbeddedKey(row),
              name |-> row.info.name,
              email |-> OrElse(row.info.email, ""),
              phone |-> OrElse(row.info.phone, ""),
              type |-> "embedded"]
  IN IF row.owner = NoDoc /\ ~Truthy(row.info.name)
     THEN clients
     ELSE IF HasKey(clients, entry.id)
          THEN [k \in 1..Len(clients) |->
                  IF clients[k].id = entry.id THEN entry ELSE clients[k]]
          ELSE Append(clients, entry)

\* The body of vehicles.forEach: clientsMap after one more vehicle.
AddClient(clients, row) ==
  IF row.owner # NoDoc
  THEN IF HasKey(clients, RegisteredKey(row))
       THEN clients
       ELSE Append(clients,
                   [id |-> RegisteredKey(row),
                    name |-> OrElse(row.owner.name, "Unknown"),
                    email |-> OrElse(row.owner.email, ""),
                    phone |-> OrElse(row.owner.phone, ""),
                    type |-> "registered"])
  ELSE IF Truthy(row.info.name)
       THEN IF HasKey(clients, EmbeddedKey(row))
            THEN clients
            ELSE Append(clients,
                        [id |-> EmbeddedKey(row),
                         name |-> row.info.name,
                         email |-> OrElse(row.info.email, ""),
                         phone |-> OrElse(row.info.phone, ""),
                         type |-> "embedded"])
       ELSE clients

\* Array.from(clientsMap.values()): the entries in insertion order.
RECURSIVE BuildClients(_)
BuildClients(rows) ==
  IF rows = <<>>
  THEN <<>>
  ELSE AddClient(BuildClients(SubSeq(rows, 1, Len(rows) - 1)), rows[Len(rows)])

CliStart ==
  /\ Begin("clients", NoParams)
  /\ local' = NoLocal
  /\ IF principal.orgId = NoOrg
     THEN /\ resp' = [status |-> 400, type |-> "bad_request", data |-> <<>>]
          /\ nresp' = 1
          /\ pc' = "done"
     ELSE /\ resp' = NoResp
          /\ nresp' = 0
          /\ pc' = "find"
  /\ UNCHANGED <<store, envSteps, principal, other>>

CliFind ==
  /\ handler = "clients" /\ pc = "find"
  /\ \/ \E e \in Thrown : Catch500(e, "find")
     \/ /\ local' = [local EXCEPT !.step = "find"]
        /\ Respond(200, "success",
                   [clients |-> BuildClients(ClientRows(principal.orgId)),
                    total |-> Len(BuildClients(ClientRows(principal.orgId)))])
        /\ UNCHANGED escaped
  /\ UNCHANGED <<handler, principal, params>>
  /\ NoEffects

\* The roster builder applied to a collection of rows given as such.
BuildRoster ==
  /\ ~roster.built
  /\ roster' = [rows |-> roster.rows,
                clients |-> BuildClients(roster.rows),
                total |-> Len(BuildClients(roster.rows)),
                built |-> TRUE]
  /\ UNCHANGED <<store, envSteps, request, outcome, booking, now>>

\* ------------------------------------------------------------------ Booking
MinDuration == 15
DefaultDuration == 60
MaxNotesLength == 1000
MaxGarageNotesLength == 1000

Statuses == {"pending", "confirmed", "in_progress", "completed", "cancelled"}
ServiceTypes == {"inspection", "repair", "maintenance", "diagnostic"}

\* A field left out of the constructor's argument, and one given as null.
Absent == -1
Null == -2

\* A string by its lengths: leading whitespace, the text from its first to its
\* last non-blank character, trailing whitespace.  absent: the field was left out.
NoString == [absent |-> TRUE, lead |-> 0, core |-> 0, trail |-> 0]
Str(lead, core, trail) == [absent |-> FALSE, lead |-> lead, core |-> core, trail |-> trail]
Length(t) == t.lead + t.core + t.trail

\* Mutant: the trim setter left out.
TrimNothing(t) == t

\* trim: true
Trim(t) == IF t.absent THEN t ELSE Str(0, t.core, 0)

NoBooking ==
  [result |-> "none", errors |-> {}, garageId |-> NoOrg, serviceType |-> NoText,
   scheduledDate |-> Absent, duration |-> Absent, status |-> "pending",
   notes |-> NoString, garageNotes |-> NoString, statusSets |-> 0,
   input |-> [garageId |-> NoOrg, serviceType |-> NoText, scheduledDate |-> Absent,
              duration |-> Absent, notes |-> NoString, garageNotes |-> NoString]]

\* new Booking(input): defaults and setters applied to the given fields.
Construct(in) ==
  [garageId |-> in.garageId,
   serviceType |-> in.serviceType,
   scheduledDate |-> in.scheduledDate,
   duration |-> IF in.duration = Absent THEN DefaultDuration ELSE in.duration,
   status |-> "pending",
   notes |-> Trim(in.notes),
   garageNotes |-> Trim(in.garageNotes)]

\* The paths the schema's validators reject.
ValidationFailures(doc) ==
  (IF doc.garageId = NoOrg THEN {"garageId"} ELSE {})
  \cup (IF doc.serviceType \notin ServiceTypes THEN {"serviceType"} ELSE {})
  \cup (IF doc.scheduledDate \in {Absent, Null} THEN {"scheduledDate"} ELSE {})
  \cup (IF doc.duration = Null \/ doc.duration < MinDuration THEN {"duration"} ELSE {})
  \cup (IF doc.status \notin Statuses THEN {"status"} ELSE {})
  \cup (IF ~doc.notes.absent /\ Length(doc.notes) > MaxNotesLength
        THEN {"notes"} ELSE {})
  \cup (IF ~doc.garageNotes.absent /\ Length(doc.garageNotes) > MaxGarageNotesLength
        THEN {"garageNotes"} ELSE {})

\* Mutant: the date compared with >=, a booking due right now still upcoming.
IsUpcomingInclusive == booking.scheduledDate >= now /\ booking.status # "cancelled"

\* bookingSchema.virtual("isUpcoming")
IsUpcoming == booking.scheduledDate > now /\ booking.status # "cancelled"

\* bookingSchema.virtual("isPast")
IsPast == booking.scheduledDate < now

\* new Booking(input) followed by validate(): kept when no validator fails.
CreateBooking(in) ==
  /\ booking.result = "none"
  /\ booking' =
       LET doc == Construct(in)
           bad == ValidationFailures(doc)
       IN IF bad = {}
          THEN [NoBooking EXCEPT !.result = "accepted", !.input = in,
                  !.garageId = doc.garageId, !.serviceType = doc.serviceType,
                  !.scheduledDate = doc.scheduledDate, !.duration = doc.duration,
                  !.status = doc.status, !.notes = doc.notes,
                  !.garageNotes = doc.garageNotes]
          ELSE [NoBooking EXCEPT !.result = "rejected", !.errors = bad, !.input = in]
  /\ UNCHANGED <<store, envSteps, request, outcome, now, roster>>

\* booking.status = s; validate(): the enum is the only check.
SetStatus(s) ==
  /\ booking.result = "accepted"
  /\ s # booking.status
  /\ ValidationFailures([booking EXCEPT !.status = s]) = {}
  /\ booking' = [booking EXCEPT !.status = s, !.statusSets = 1]
  /\ UNCHANGED <<store, envSteps, request, outcome, now, roster>>

\* The clock moves on.
Tick ==
  /\ now < MaxTime
  /\ now' = now + 1
  /\ UNCHANGED <<store, envSteps, request, outcome, booking, roster>>

Texts ==
  {NoString, Str(0, 5, 0), Str(0, 1000, 0), Str(0, 1001, 0), Str(1, 1000, 0),
   Str(0, 1000, 1), Str(1, 1001, 0)}

BookingInputs ==
  [garageId : {NoOrg, "o1"},
   serviceType : {"repair", "towing"},
   scheduledDate : {Absent} \cup 1..(MaxTime - 1),
   duration : {Absent, Null, 10, 14, 15, 90},
   notes : Texts,
   garageNotes : Texts]

\* ------------------------------------------------------------ specifications
InitStore ==
  /\ vehicles = <<>>
  /\ users = [u \in Users |-> TRUE]
  /\ auditLog = <<>>
  /\ envSteps = 0

InitRequest ==
  /\ handler = "none"
  /\ pc = "idle"
  /\ params = NoParams
  /\ local = NoLocal
  /\ resp = NoResp
  /\ nresp = 0
  /\ escaped = FALSE
  /\ nmut = 0
  /\ naudit = 0
  /\ ncalls = 0

InitOther ==
  /\ booking = NoBooking
  /\ now = 0
  /\ roster = NoRoster

Init == InitStore /\ InitRequest /\ InitOther /\ principal \in Principals

Owners == Users \cup {NoUser}
OrgRefs == Orgs \cup {NoOrg}

\* The image workflow, with vehicles created and re-owned by other requests.
NextImage ==
  \/ \E b \in GenBodies : GenStart(b)
  \/ GenFindOne
  \/ GenProvider
  \/ GenSave
  \/ GenAudit
  \/ \E o \in Owners, g \in OrgRefs :
       /\ envSteps < MaxGenEnvSteps
       /\ Len(vehicles) < MaxGenVehicles
       /\ EnvCreateVehicle(o, g, "KAA", NoInfo)
  \/ \E id \in VehicleIds, o \in Owners, g \in OrgRefs :
       /\ envSteps < MaxGenEnvSteps
       /\ EnvReownVehicle(id, o, g)

SpecImage == Init /\ [][NextImage]_vars

\* The metrics handler, with the writes of other requests between its queries.
NextMetrics ==
  \/ MetStart
  \/ MetCountTotal
  \/ MetCountActive
  \/ MetFind
  \/ MetCountUsers
  \/ \E o \in Owners, g \in OrgRefs :
       /\ envSteps < MaxMetEnvSteps
       /\ Len(vehicles) < MaxMetVehicles
       /\ EnvCreateVehicle(o, g, "KAA", NoInfo)
  \/ \E id \in VehicleIds, o \in Owners, g \in OrgRefs :
       /\ envSteps < MaxMetEnvSteps
       /\ EnvReownVehicle(id, o, g)
  \/ \E id \in VehicleIds, a \in BOOLEAN :
       /\ envSteps < MaxMetEnvSteps
       /\ EnvSetVehicleActive(id, a)
  \/ \E u \in Users, a \in BOOLEAN :
       /\ envSteps < MaxMetEnvSteps
       /\ EnvSetUserActive(u, a)

SpecMetrics == Init /\ [][NextMetrics]_vars

\* The two vehicle-returning handlers.
SearchTerms == {NoText, "kaa"}
NextList ==
  \/ \E pg \in 1..MaxPage, lm \in (1..MaxLimit) \cup {DefaultLimit},
        st \in SearchTerms, ow \in Owners : LstStart(pg, lm, st, ow)
  \/ LstFind
  \/ LstCount
  \/ \E id \in 1..(MaxListVehicles + 1) : DetStart(id)
  \/ DetFindOne
  \/ \E o \in Users, g \in {"o1", NoOrg}, pl \in Plates :
       /\ envSteps < MaxListEnvSteps
       /\ Len(vehicles) < MaxListVehicles
       /\ EnvCreateVehicle(o, g, pl, NoInfo)
  \/ \E id \in VehicleIds, a \in BOOLEAN :
       /\ envSteps < MaxListEnvSteps
       /\ EnvSetVehicleActive(id, a)

SpecList == Init /\ [][NextList]_vars

\* The five handlers side by side.
Infos == {NoInfo, [name |-> "Cy", phone |-> "777", email |-> NoText]}
NextHandlers ==
  \/ \E b \in GenBodies : GenStart(b)
  \/ GenFindOne
  \/ GenProvider
  \/ GenSave
  \/ GenAudit
  \/ MetStart
  \/ MetCountTotal
  \/ MetCountActive
  \/ MetFind
  \/ MetCountUsers
  \/ CliStart
  \/ CliFind
  \/ \E id \in 1..(MaxAllVehicles + 1) : DetStart(id)
  \/ DetFindOne
  \/ \E ow \in Owners : LstStart(1, DefaultLimit, NoText, ow)
  \/ LstFind
  \/ LstCount
  \/ \E o \in Owners, g \in OrgRefs, info \in Infos :
       /\ Len(vehicles) < MaxAllVehicles
       /\ EnvCreateVehicle(o, g, "KAA", info)

SpecHandlers == Init /\ [][NextHandlers]_vars

\* The roster builder over every collection of rows.
RosterOwners == {NoDoc, UserDoc("u1"), UserDoc("u2")}
RosterInfos ==
  [name : {NoText, "Cy"}, phone : {NoText, "777"}, email : {NoText, "cy@x"}]
RosterRows ==
  [owner : {NoDoc}, info : RosterInfos]
    \cup [owner : {UserDoc("u1"), UserDoc("u2")}, info : {NoInfo}]
    \cup {[owner |-> UserDoc("u1"), info |-> [name |-> "Cy", phone |-> "777", email |-> NoText]]}
RowSeqs == UNION {[1..n -> RosterRows] : n \in 0..MaxRows}

InitClients ==
  /\ InitStore /\ InitRequest
  /\ principal = [userId |-> "u1", orgId |-> "o1"]
  /\ booking = NoBooking
  /\ now = 0
  /\ roster \in [rows : RowSeqs, clients : {<<>>}, total : {0}, built : {FALSE}]

SpecClients == InitClients /\ [][BuildRoster]_vars

\* A booking from its construction on, with the clock advancing.
NextBooking ==
  \/ \E in \in BookingInputs : CreateBooking(in)
  \/ \E st \in Statuses : SetStatus(st)
  \/ Tick

InitBooking ==
  /\ InitStore /\ InitRequest /\ InitOther
  /\ principal = [userId |-> "u1", orgId |-> "o1"]

SpecBooking == InitBooking /\ [][NextBooking]_vars

\* --------------------------------------------------------------------------
\* Properties
\* --------------------------------------------------------------------------
Answered(route) == handler = route /\ pc = "done"

\* The vehicle ids a 200 response of a vehicle-returning handler carries.
ReturnedIds ==
  IF Answered("list") /\ resp.status = 200 THEN resp.data.ids
  ELSE IF Answered("detail") /\ resp.status = 200 THEN resp.data
  ELSE <<>>

\* C1: no vehicle-returning endpoint (detail, or list with any page, limit,
\* search and ownerId, a caller without orgId included) returns a vehicle v to
\* a principal p unless v.ownerUserId = p.userId or v.orgId = p.orgId.
C1_OnlyVisibleReturned ==
  \A k \in 1..Len(ReturnedIds) : Visible(ReturnedIds[k], principal)

RateLimited(e) ==
  e.hasMessage /\ (Includes(e.message, <<"rate", "limit">>) \/ Includes(e.message, <<"quota">>))

\* C2: when the lookup of generate-image finds that the vehicleId does not
\* exist or that the vehicle matches neither the caller's userId nor the
\* caller's orgId, the response is 404 vehicle_not_found, the image provider
\* is never called, no vehicle is modified and no audit record is written.  A
\* lookup that itself fails has no result to answer with; the request then
\* still calls no provider and writes nothing.
C2_InaccessibleIsNotFound ==
  (handler = "generate-image" /\ local.step # "none" /\ ~local.accessible) =>
    /\ ncalls = 0 /\ nmut = 0 /\ naudit = 0 /\ auditLog = <<>>
    /\ \A id \in VehicleIds : vehicles[id].imageUrl = NoUrl
    /\ (pc = "done" /\ ~local.failed =>
          resp.status = 404 /\ resp.type = "vehicle_not_found" /\ nresp = 1)

C2_Witness ==
  /\ Answered("generate-image")
  /\ params.vehicleId \in VehicleIds
  /\ ~CanAccess(vehicles[params.vehicleId], principal)
  /\ resp.status = 404
  /\ ncalls = 0

\* C3: when the image provider call fails with a message containing
\* "rate limit" (or "quota"), the response is 429 rate_limit_error, the
\* vehicle's stored imageUrl is what it was before the request, and no audit
\* record is written.
C3_RateLimitLeavesVehicle ==
  (Answered("generate-image") /\ local.step = "provider" /\ local.failed
     /\ RateLimited(local.error)) =>
    /\ resp.status = 429 /\ resp.type = "rate_limit_error" /\ nresp = 1
    /\ nmut = 0 /\ vehicles[local.vid].imageUrl = NoUrl
    /\ naudit = 0 /\ auditLog = <<>>

C3_Witness ==
  /\ Answered("generate-image")
  /\ local.step = "provider" /\ local.error = ErrRateLimit
  /\ resp.status = 429
  /\ vehicles[local.vid].imageUrl = NoUrl

\* C4 as stated: a 200 response implies exactly one vehicle mutation and
\* exactly one audit record, and any other response implies none of either,
\* whatever step failed.
C4_AllOrNothing ==
  (Answered("generate-image") /\ nresp = 1) =>
    IF resp.status = 200 THEN nmut = 1 /\ naudit = 1 ELSE nmut = 0 /\ naudit = 0

\* C4, amended: a 200 response implies exactly one vehicle mutation and
\* exactly one audit record; any other response implies no audit record, and
\* no vehicle mutation unless the step that failed is the audit write, where
\* the one mutation made before it stays.
C4_MutationSurvivesAuditFailure ==
  (Answered("generate-image") /\ nresp = 1) =>
    IF resp.status = 200
    THEN nmut = 1 /\ naudit = 1 /\ Len(auditLog) = 1
    ELSE /\ naudit = 0 /\ auditLog = <<>>
         /\ nmut = (IF local.step = "audit" THEN 1 ELSE 0)

C4_Witness ==
  /\ Answered("generate-image")
  /\ resp.status = 500 /\ local.step = "audit"
  /\ nmut = 1 /\ naudit = 0
  /\ vehicles[local.vid].imageUrl = local.imageUrl

\* C5: every request to each of the five handlers ends with exactly one
\* response, whatever a collaborator throws, a value without a message string
\* included; nothing is thrown out of the handler.
C5_ExactlyOneResponse == pc = "done" => nresp = 1 /\ ~escaped

\* C6 as stated: every metrics response satisfies activeUsers <= totalUsers
\* <= number of distinct non-null owners of the caller's accessible vehicles,
\* and the handler's totalCars >= activeCars, also when other requests write
\* between the handler's four queries.
C6_MetricsAlwaysOrdered ==
  (Answered("metrics") /\ resp.status = 200) =>
    /\ resp.data.activeUsers <= resp.data.totalUsers
    /\ resp.data.totalUsers <= Cardinality(VisibleOwners(principal))
    /\ local.totalCars >= local.activeCars

\* C6, amended: every metrics response satisfies activeUsers <= totalUsers,
\* and totalUsers is the number of distinct non-null owners of the caller's
\* accessible vehicles as the third query met them; totalCars >= activeCars
\* holds when no other request wrote a vehicle between the first two queries.
C6_MetricsOrderedPerQuery ==
  (Answered("metrics") /\ resp.status = 200) =>
    /\ resp.data.activeUsers <= resp.data.totalUsers
    /\ resp.data.totalUsers = Cardinality(local.ownersAtFind)
    /\ resp.data.totalCars = local.totalCars
    /\ (~local.raced => local.totalCars >= local.activeCars)

C6_Witness ==
  /\ Answered("metrics") /\ resp.status = 200
  /\ ~local.raced
  /\ resp.data.totalUsers = 1
  /\ resp.data.activeUsers = 0
  /\ local.totalCars = 1 /\ local.activeCars = 1

\* The roster in the words of the claim.
RowIndexes == 1..Len(roster.rows)
IsRegistered(row) == row.owner # NoDoc
HasEmbeddedInfo(row) == ~IsRegistered(row) /\ row.info # NoInfo
IsNamedEmbedded(row) == ~IsRegistered(row) /\ row.info.name \notin {NoText, ""}
PhoneOrEmail(row) ==
  IF row.info.phone \notin {NoText, ""} THEN row.info.phone ELSE row.info.email
ClaimedKey(row) ==
  IF IsRegistered(row) THEN <<"", row.owner.id>> ELSE <<"info_", PhoneOrEmail(row)>>
EntriesWithId(key) == {k \in 1..Len(roster.clients) : roster.clients[k].id = key}
FirstRowWith(key, Counts(_)) ==
  roster.rows[CHOOSE i \in RowIndexes :
                /\ Counts(roster.rows[i]) /\ ClaimedKey(roster.rows[i]) = key
                /\ \A j \in 1..(i - 1) :
                     ~(Counts(roster.rows[j]) /\ ClaimedKey(roster.rows[j]) = key)]
ClaimedEntry(row) ==
  IF IsRegistered(row)
  THEN [id |-> ClaimedKey(row),
        name |-> IF row.owner.name \in {NoText, ""} THEN "Unknown" ELSE row.owner.name,
        email |-> IF row.owner.email \in {NoText, ""} THEN "" ELSE row.owner.email,
        phone |-> IF row.owner.phone \in {NoText, ""} THEN "" ELSE row.owner.phone,
        type |-> "registered"]
  ELSE [id |-> ClaimedKey(row),
        name |-> row.info.name,
        email |-> IF row.info.email \in {NoText, ""} THEN "" ELSE row.info.email,
        phone |-> IF row.info.phone \in {NoText, ""} THEN "" ELSE row.info.phone,
        type |-> "embedded"]

\* The roster holds exactly one entry, built from the first row seen, for
\* every key of the rows that count, no other entry, and total entries.
RosterIsExactly(Counts(_)) ==
  /\ \A i \in RowIndexes :
       Counts(roster.rows[i]) =>
         /\ Cardinality(EntriesWithId(ClaimedKey(roster.rows[i]))) = 1
         /\ \A k \in EntriesWithId(ClaimedKey(roster.rows[i])) :
              roster.clients[k] =
                ClaimedEntry(FirstRowWith(ClaimedKey(roster.rows[i]), Counts))
  /\ \A k \in 1..Len(roster.clients) :
       \E i \in RowIndexes :
         Counts(roster.rows[i]) /\ ClaimedKey(roster.rows[i]) = roster.clients[k].id
  /\ roster.total = Len(roster.clients)

\* C7 as stated: for every collection of active vehicles, in any order and
\* with any duplicates, the roster has exactly one entry per distinct
\* registered owning-user id and exactly one per distinct embedded key
\* ("info_" + phone-or-email), each built from the first vehicle seen with the
\* key, and total is the number of entries.
C7_OneEntryPerKey ==
  roster.built => RosterIsExactly(LAMBDA row : IsRegistered(row) \/ HasEmbeddedInfo(row))

\* C7, amended: the embedded keys that get an entry are those of the vehicles
\* with no owning user and a non-empty ownerInfo.name; a vehicle whose
\* embedded info has no name gets none.
C7_OneEntryPerNamedKey ==
  roster.built => RosterIsExactly(LAMBDA row : IsRegistered(row) \/ IsNamedEmbedded(row))

C7_Witness ==
  /\ roster.built
  /\ Len(roster.rows) = 3
  /\ roster.total = 2
  /\ \E i, j \in RowIndexes :
       /\ i < j
       /\ IsNamedEmbedded(roster.rows[i]) /\ IsNamedEmbedded(roster.rows[j])
       /\ ClaimedKey(roster.rows[i]) = ClaimedKey(roster.rows[j])
       /\ roster.rows[i] # roster.rows[j]
  /\ \E i \in RowIndexes : IsRegistered(roster.rows[i])

\* Pagination in the words of the claim.
Smaller(a, b) == IF a < b THEN a ELSE b
Larger(a, b) == IF a > b THEN a ELSE b
Ceiling(n, d) == CHOOSE k \in 0..n : k * d >= n /\ (k = 0 \/ (k - 1) * d < n)
AccessibleSet(p) == {id \in VehicleIds : CanAccess(vehicles[id], p)}
ActiveAccessibleSet(p) == {id \in AccessibleSet(p) : vehicles[id].isActive}

\* A list request without search and ownerId, answered 200, with no vehicle
\* written between its find and its count: the set it pages over is fixed.
PlainListAnswered ==
  /\ Answered("list") /\ resp.status = 200
  /\ params.search = NoText /\ params.ownerId = NoUser
  /\ ~local.raced

PagedOver(n) ==
  /\ Len(resp.data.ids) =
       Smaller(params.limit, Larger(0, n - (params.page - 1) * params.limit))
  /\ resp.data.total = n
  /\ resp.data.pages = Ceiling(n, params.limit)

\* C8 as stated: with page p >= 1 and limit L >= 1 over the N vehicles
\* accessible to the caller, the response holds min(L, max(0, N - (p-1)*L))
\* records, total = N and pages = ceil(N / L).
C8_PagesOverAccessible ==
  PlainListAnswered => PagedOver(Cardinality(AccessibleSet(principal)))

\* C8, amended: N is the number of active vehicles accessible to the caller;
\* the records are the newest-first slice of that set.
C8_PagesOverActiveAccessible ==
  PlainListAnswered =>
    /\ PagedOver(Cardinality(ActiveAccessibleSet(principal)))
    /\ \A k \in 1..Len(resp.data.ids) :
         /\ resp.data.ids[k] \in ActiveAccessibleSet(principal)
         /\ Cardinality({id \in ActiveAccessibleSet(principal) : id > resp.data.ids[k]})
              = (params.page - 1) * params.limit + k - 1

C8_Witness ==
  /\ PlainListAnswered
  /\ params.page = 2 /\ params.limit = 1
  /\ resp.data.ids = <<1>>
  /\ resp.data.total = 2 /\ resp.data.pages = 2

\* C9: for a booking whose scheduledDate is not changed, as the clock
\* advances: isUpcoming is true exactly while now < scheduledDate and status
\* is not cancelled, isPast exactly while now > scheduledDate whatever the
\* status; the two are never both true; and once the clock has passed
\* scheduledDate isUpcoming is false from then on, a pending status included.
C9_VirtualsFollowClock ==
  /\ [](booking.result = "accepted" =>
          /\ IsUpcoming <=> (now < booking.scheduledDate /\ booking.status # "cancelled")
          /\ IsPast <=> (now > booking.scheduledDate)
          /\ ~(IsUpcoming /\ IsPast))
  /\ [][(booking.result = "accepted" /\ now > booking.scheduledDate) =>
          (~IsUpcoming /\ ~IsUpcoming')]_vars

C9_Witness ==
  /\ booking.result = "accepted"
  /\ now > booking.scheduledDate
  /\ booking.status = "pending"
  /\ ~IsUpcoming /\ IsPast

\* The rejections of the claim, from the constructor's argument.
SuppliedLength(t) == IF t.absent THEN 0 ELSE t.lead + t.core + t.trail
TrimmedLength(t) == IF t.absent THEN 0 ELSE t.core
ClaimedErrors(in, TextLength(_)) ==
  (IF in.garageId = NoOrg THEN {"garageId"} ELSE {})
  \cup (IF in.duration # Absent /\ in.duration < 15 THEN {"duration"} ELSE {})
  \cup (IF TextLength(in.notes) >= 1001 THEN {"notes"} ELSE {})
  \cup (IF TextLength(in.garageNotes) >= 1001 THEN {"garageNotes"} ELSE {})

AcceptedBookingIsValid ==
  booking.result = "accepted" =>
    /\ booking.duration >= 15
    /\ (booking.input.duration = Absent => booking.duration = 60)
    /\ SuppliedLength(booking.notes) <= 1000
    /\ SuppliedLength(booking.garageNotes) <= 1000
    /\ booking.garageId # NoOrg
    /\ (booking.statusSets = 0 => booking.status = "pending")
    /\ \A st \in Statuses \ {booking.status} : ENABLED SetStatus(st)

RejectedFor(TextLength(_)) ==
  booking.result # "none" =>
    booking.errors \cap {"garageId", "duration", "notes", "garageNotes"}
      = ClaimedErrors(booking.input, TextLength)

\* C10 as stated: an accepted booking has duration >= 15 (60 when not
\* supplied), notes and garageNotes of length <= 1000 and a garage reference;
\* a duration below 15, notes or garageNotes supplied at length 1001 or more,
\* or no garageId is rejected; status starts pending and any of the five
\* values may be set from any other.
C10_SuppliedLengthRejected ==
  /\ AcceptedBookingIsValid
  /\ (booking.result # "none" /\ ClaimedErrors(booking.input, SuppliedLength) # {} =>
        booking.result = "rejected")

\* C10, amended: the length that counts is the one left after the surrounding
\* whitespace is trimmed.
C10_TrimmedLengthRejected == AcceptedBookingIsValid /\ RejectedFor(TrimmedLength)

C10_Witness ==
  /\ booking.result = "accepted"
  /\ booking.input.duration = Absent /\ booking.duration = 60
  /\ SuppliedLength(booking.input.notes) = 1001
  /\ SuppliedLength(booking.notes) = 1000
  /\ booking.status = "completed"

====
